---- MODULE Spec2Model ----
(***************************************************************************)
(* Model of robot/model/statistics.py: the suite statistics builder, the   *)
(* tag statistics aggregator, the total statistics and the tag link        *)
(* pattern compiler.                                                       *)
(*                                                                         *)
(* Strings that the code inspects character by character (tag names,       *)
(* wildcard patterns, link and title templates) are sequences of one       *)
(* character strings.                                                      *)
(***************************************************************************)
EXTENDS Integers, Sequences, FiniteSets, Bags, TLC

VARIABLES
    pc,                   \* position inside Statistics.__init__ / build
    parent,               \* the suites entered so far: suite -> enclosing suite (0 for the top suite)
    tests,                \* the tests visited so far, in visiting order
    suite_critical,       \* suite -> the suite's criticality classifier (suite.critical)
    vstack,               \* suites the visitor has entered and not yet left
    _suite_stat_level,    \* StatisticsBuilder._suite_stat_level
    _parents,             \* StatisticsBuilder._parents
    _current_suite_stat,  \* StatisticsBuilder._current_suite_stat (a node)
    _current_suite,       \* StatisticsBuilder._current_suite (a suite, 0 before the first)
    heap,                 \* node -> SuiteStatistics object
    self_suite,           \* Statistics.suite: the node build returned (Wrapper before)
    self_total,           \* Statistics.total: the TotalStatistics 
    settings,             \* the tag_stat_* and tag_doc arguments of Statistics
    self_tags,            \* Statistics.tags: the TagStatistics object
    tags_last,            \* the classifier of the last add_test call made on it directly
    link_in,              \* a link rule and a tag: the inputs of one TagStatLink
    link_obj,             \* the TagStatLink built from the rule
    link_out,             \* what get_link returned
    stat,                 \* one Stat object
    stat_last,            \* the last call made on stat, with its argument
    stat_log              \* the calls made on stat, in order

treeVars == <<parent, tests, suite_critical>>
inputVars == <<treeVars, _suite_stat_level, settings>>
visitorVars == <<vstack>>
builderVars == <<_parents, _current_suite_stat, _current_suite, heap>>
resultVars == <<self_suite, self_total>>
linkVars == <<link_in, link_obj, link_out>>
statVars == <<stat, stat_last, stat_log>>
tagVars == <<self_tags, tags_last>>

vars == <<pc, inputVars, visitorVars, builderVars, resultVars, tagVars,
          linkVars, statVars>>

----------------------------------------------------------------------------
(* Bounds                                                                  *)

MaxSuites == 3
MaxTests == 2
MaxLevel == 2
MaxPatternLen == 3
MaxTagLen == 3
MaxCount == 6
MaxCalls == 4

Wrapper == 0        \* the node build() creates before the traversal
Top == 1            \* the suite handed to build()

Levels == -1..MaxLevel
Statuses == {"PASS", "FAIL"}
YesNo == {"yes", "no"}

----------------------------------------------------------------------------
(* Sequence helpers                                                        *)

Last(s) == s[Len(s)]
Front(s) == SubSeq(s, 1, Len(s) - 1)
Range(s) == {s[i] : i \in DOMAIN s}

----------------------------------------------------------------------------
(* class Stat                                                              *)

Stat(name) == [name |-> name, passed |-> 0, failed |-> 0]

Stat_total(self) == self.passed + self.failed

Stat_add_stat_Assign(self, other) ==
    [self EXCEPT !.passed = other.passed, !.failed = other.failed]
Stat_add_stat_PassedOnly(self, other) ==
    [self EXCEPT !.passed = @ + other.passed]
Stat_add_stat_FirstOnly(self, other) ==
    IF self.passed + self.failed = 0
    THEN [self EXCEPT !.passed = other.passed, !.failed = other.failed]
    ELSE self
Stat_add_stat(self, other) ==
    [self EXCEPT !.passed = @ + other.passed, !.failed = @ + other.failed]

Stat_add_test_FailOnly(self, test) ==
    IF test.status = "PASS" THEN [self EXCEPT !.passed = @ + 1]
    ELSE IF test.status = "FAIL" THEN [self EXCEPT !.failed = @ + 1]
    ELSE self
Stat_add_test(self, test) ==
    IF test.status = "PASS"
    THEN [self EXCEPT !.passed = @ + 1]
    ELSE [self EXCEPT !.failed = @ + 1]

(* class SuiteStat: the Stat of one suite; suites are named by their id    *)
SuiteStat(s) == Stat(s)

(* class TotalStat: a named copy of a SuiteStat's counters                 *)
TotalStat(name, suite_stat) ==
    [name |-> name, passed |-> suite_stat.passed, failed |-> suite_stat.failed]

----------------------------------------------------------------------------
(* class SuiteStatistics                                                   *)

SuiteStatistics(s) ==
    [all |-> SuiteStat(s), critical |-> SuiteStat(s), suites |-> <<>>]

SuiteStatistics_add_test(self, test) ==
    [self EXCEPT !.all = Stat_add_test(@, test),
                 !.critical = IF test.critical = "yes"
                              THEN Stat_add_test(@, test) ELSE @]

(* class TotalStatistics; __iter__ yields critical, then all               *)
TotalStatistics_Swapped(suite_statistics) ==
    [critical |-> TotalStat("Critical Tests", suite_statistics.all),
     all |-> TotalStat("All Tests", suite_statistics.critical)]
TotalStatistics(suite_statistics) ==
    [critical |-> TotalStat("Critical Tests", suite_statistics.critical),
     all |-> TotalStat("All Tests", suite_statistics.all)]

TotalStatistics_iter(self) == <<self.critical, self.all>>

----------------------------------------------------------------------------
(* Characters.  Ord gives the code point, which is what cmp() on two str   *)
(* compares; Lower is str.lower() on the alphabet in use.                  *)

Ord(c) ==
    CASE c = " " -> 32 [] c = "%" -> 37 [] c = "&" -> 38 [] c = "(" -> 40
      [] c = ")" -> 41 [] c = "*" -> 42 [] c = "." -> 46 [] c = "0" -> 48
      [] c = "1" -> 49 [] c = "2" -> 50 [] c = "3" -> 51 [] c = "4" -> 52
      [] c = "5" -> 53 [] c = "6" -> 54 [] c = "7" -> 55 [] c = "8" -> 56
      [] c = "9" -> 57 [] c = "?" -> 63 [] c = "A" -> 65 [] c = "B" -> 66
      [] c = "C" -> 67 [] c = "\\" -> 92 [] c = "^" -> 94 [] c = "_" -> 95
      [] c = "a" -> 97 [] c = "b" -> 98 [] c = "c" -> 99 [] c = "d" -> 100
      [] c = "t" -> 116 [] c = "$" -> 36

Lower(c) == CASE c = "A" -> "a" [] c = "B" -> "b" [] c = "C" -> "c" [] OTHER -> c

IsAlnum(c) == (Ord(c) >= 48 /\ Ord(c) <= 57) \/ (Ord(c) >= 65 /\ Ord(c) <= 90)
                  \/ (Ord(c) >= 97 /\ Ord(c) <= 122)

Digits == <<"0", "1", "2", "3", "4", "5", "6", "7", "8", "9">>

(* str(n) for n >= 0                                                       *)
RECURSIVE str(_)
str(n) == IF n < 10 THEN <<Digits[n + 1]>>
          ELSE str(n \div 10) \o <<Digits[(n % 10) + 1]>>

(* cmp() on two str: -1, 0 or 1 by code points, a proper prefix first      *)
RECURSIVE cmp_str(_, _)
cmp_str(x, y) ==
    IF x = <<>> THEN (IF y = <<>> THEN 0 ELSE -1)
    ELSE IF y = <<>> THEN 1
    ELSE IF Ord(Head(x)) < Ord(Head(y)) THEN -1
    ELSE IF Ord(Head(x)) > Ord(Head(y)) THEN 1
    ELSE cmp_str(Tail(x), Tail(y))

(* cmp() on two bool: False < True                                         *)
cmp_bool(x, y) == IF x = y THEN 0 ELSE IF y THEN -1 ELSE 1

(* s.startswith(old) at position i                                         *)
StartsWithAt(s, i, old) ==
    /\ i + Len(old) - 1 <= Len(s)
    /\ \A k \in 1..Len(old) : s[i + k - 1] = old[k]

(* str.replace(old, new): every non-overlapping occurrence, left to right; *)
(* old is never empty here                                                 *)
RECURSIVE ReplaceFrom(_, _, _, _)
ReplaceFrom(s, i, old, new) ==
    IF i > Len(s) THEN <<>>
    ELSE IF StartsWithAt(s, i, old)
         THEN new \o ReplaceFrom(s, i + Len(old), old, new)
         ELSE <<s[i]>> \o ReplaceFrom(s, i + 1, old, new)

replace(s, old, new) == ReplaceFrom(s, 1, old, new)

----------------------------------------------------------------------------
(* The re module, for the expressions _get_match_regexp builds: a caret,   *)
(* items and a dollar, an item being a group of dots, a group of dot-star, *)
(* an escaped character or an alphanumeric one; flags re.IGNORECASE.       *)

(* re.escape: a backslash before every non-alphanumeric character          *)
RECURSIVE re_escape(_)
re_escape(s) ==
    IF s = <<>> THEN <<>>
    ELSE (IF IsAlnum(Head(s)) THEN <<Head(s)>> ELSE <<"\\", Head(s)>>)
         \o re_escape(Tail(s))

(* re.compile raises on unbalanced or nested parentheses: depth stays in   *)
(* 0..1 and ends at 0.  An escaped character is skipped.                   *)
RECURSIVE ParenOK(_, _, _)
ParenOK(re, i, depth) ==
    IF i > Len(re) THEN depth = 0
    ELSE IF re[i] = "\\" THEN ParenOK(re, i + 2, depth)
    ELSE IF re[i] = "(" THEN depth = 0 /\ ParenOK(re, i + 1, 1)
    ELSE IF re[i] = ")" THEN depth = 1 /\ ParenOK(re, i + 1, 0)
    ELSE ParenOK(re, i + 1, depth)

re_compiles(re) == ParenOK(re, 1, 0)

NoMatch == [ok |-> FALSE, groups |-> <<>>]

(* regexp.match(s): backtracking, '.*' greedy.  i is the position in the   *)
(* expression, j the position in s, start where the open group began.      *)
RECURSIVE re_at(_, _, _, _, _, _)
RECURSIVE re_star(_, _, _, _, _, _, _)
re_at(re, i, s, j, start, groups) ==
    IF i > Len(re) THEN [ok |-> TRUE, groups |-> groups]
    ELSE IF re[i] = "^" THEN (IF j = 1 THEN re_at(re, i + 1, s, j, start, groups)
                              ELSE NoMatch)
    ELSE IF re[i] = "$" THEN (IF j = Len(s) + 1
                              THEN re_at(re, i + 1, s, j, start, groups)
                              ELSE NoMatch)
    ELSE IF re[i] = "(" THEN re_at(re, i + 1, s, j, j, groups)
    ELSE IF re[i] = ")"
         THEN re_at(re, i + 1, s, j, 0, Append(groups, SubSeq(s, start, j - 1)))
    ELSE IF re[i] = "." /\ i < Len(re) /\ re[i + 1] = "*"
         THEN re_star(re, i + 2, s, j, start, groups, Len(s) + 1 - j)
    ELSE IF re[i] = "."
         THEN (IF j <= Len(s) THEN re_at(re, i + 1, s, j + 1, start, groups)
               ELSE NoMatch)
    ELSE IF re[i] = "\\"
         THEN (IF j <= Len(s) /\ Lower(s[j]) = Lower(re[i + 1])
               THEN re_at(re, i + 2, s, j + 1, start, groups)
               ELSE NoMatch)
    ELSE (IF j <= Len(s) /\ Lower(s[j]) = Lower(re[i])
          THEN re_at(re, i + 1, s, j + 1, start, groups)
          ELSE NoMatch)
re_star(re, i, s, j, start, groups, k) ==
    IF k < 0 THEN NoMatch
    ELSE LET r == re_at(re, i, s, j + k, start, groups)
         IN IF r.ok THEN r ELSE re_star(re, i, s, j, start, groups, k - 1)

re_match(re, s) == re_at(re, 1, s, 1, 0, <<>>)

----------------------------------------------------------------------------
(* class TagStatLink                                                       *)

(* _match_pattern_tokenizer.split(pattern): the literal pieces (possibly   *)
(* empty) alternating with the '*' and '?' that separate them              *)
RECURSIVE TokenizeFrom(_, _, _)
TokenizeFrom(pattern, i, piece) ==
    IF i > Len(pattern) THEN <<piece>>
    ELSE IF pattern[i] \in {"*", "?"}
         THEN <<piece, <<pattern[i]>>>> \o TokenizeFrom(pattern, i + 1, <<>>)
         ELSE TokenizeFrom(pattern, i + 1, Append(piece, pattern[i]))

_match_pattern_tokenizer_split(pattern) == TokenizeFrom(pattern, 1, <<>>)

(* the text appended after the loop of _get_match_regexp                   *)
CloseAtEnd_NoClose(open_parenthesis) == <<>>
CloseAtEnd(open_parenthesis) == IF open_parenthesis THEN <<")">> ELSE <<>>

(* the loop of _get_match_regexp over tokens[i..], then the final close    *)
RECURSIVE RegexpLoop(_, _, _, _)
RegexpLoop(tokens, i, regexp, open_parenthesis) ==
    IF i > Len(tokens) THEN regexp \o CloseAtEnd(open_parenthesis)
    ELSE LET token == tokens[i] IN
         IF token = <<>> THEN RegexpLoop(tokens, i + 1, regexp, open_parenthesis)
         ELSE IF token = <<"?">>
         THEN RegexpLoop(tokens, i + 1,
                         regexp \o (IF open_parenthesis THEN <<>> ELSE <<"(">>)
                                \o <<".">>,
                         TRUE)
         ELSE LET closed == regexp \o (IF open_parenthesis THEN <<")">> ELSE <<>>)
              IN IF token = <<"*">>
                 THEN RegexpLoop(tokens, i + 1, closed \o <<"(", ".", "*", ")">>, FALSE)
                 ELSE RegexpLoop(tokens, i + 1, closed \o re_escape(token), FALSE)

_get_match_regexp(pattern) ==
    <<"^">> \o RegexpLoop(_match_pattern_tokenizer_split(pattern), 1, <<>>, FALSE)
            \o <<"$">>

(* TagStatLink.__init__                                                    *)
TagStatLink(pattern, link, title) ==
    [_regexp |-> _get_match_regexp(pattern),
     _link |-> link,
     _title |-> replace(title, <<"_">>, <<" ">>)]

TagStatLink_matches(self, tag) == re_match(self._regexp, tag).ok

(* _replace_groups: the loop over enumerate(match.groups()) from index on  *)
RECURSIVE _replace_groups(_, _, _, _)
_replace_groups(link, title, groups, index) ==
    IF index >= Len(groups) THEN <<link, title>>
    ELSE LET placefolder == <<"%">> \o str(index + 1)
             group == groups[index + 1]
         IN _replace_groups(replace(link, placefolder, group),
                            replace(title, placefolder, group),
                            groups, index + 1)

(* get_link: <<link, title>>, or <<>> for None                             *)
TagStatLink_get_link(self, tag) ==
    LET match == re_match(self._regexp, tag)
    IN IF ~match.ok THEN <<>>
       ELSE _replace_groups(self._link, self._title, match.groups, 0)

----------------------------------------------------------------------------
(* Collaborators of the tag statistics: utils.normalize, TagPatterns and   *)
(* the criticality classifier.                                             *)

(* utils.normalize(string, ignore=['_']): whitespace and underscores       *)
(* removed, lower case                                                     *)
RECURSIVE Normalize(_)
Normalize(s) ==
    IF s = <<>> THEN <<>>
    ELSE IF Head(s) \in {" ", "_"} THEN Normalize(Tail(s))
    ELSE <<Lower(Head(s))>> \o Normalize(Tail(s))

(* the parts of a tag pattern text that '&' joins                          *)
RECURSIVE SplitAnd(_, _)
SplitAnd(text, part) ==
    IF text = <<>> THEN <<part>>
    ELSE IF Head(text) = "&" THEN <<part>> \o SplitAnd(Tail(text), <<>>)
    ELSE SplitAnd(Tail(text), Append(part, Head(text)))

(* one pattern matches a collection of tags when each of its parts is the  *)
(* normalized name of one of the tags                                      *)
TagPattern_match(text, tags) ==
    \A part \in Range(SplitAnd(text, <<>>)) :
        \E tag \in tags : Normalize(tag) = Normalize(part)

(* TagPatterns(patterns).match(tags); patterns is a set of pattern texts,  *)
(* and bool(TagPatterns) is patterns # {}                                  *)
TagPatterns_match(patterns, tags) ==
    \E text \in patterns : TagPattern_match(text, tags)

(* suite.critical: the critical and the non-critical tag patterns          *)
Criticality(critical_tags, non_critical_tags) ==
    [critical_tags |-> critical_tags, non_critical_tags |-> non_critical_tags]

is_critical(self, tag) == TagPatterns_match(self.critical_tags, {tag})
is_non_critical(self, tag) == TagPatterns_match(self.non_critical_tags, {tag})

----------------------------------------------------------------------------
(* class TagStat                                                           *)

TagStat(name, doc, links, critical, non_critical, combined) ==
    [name |-> name, passed |-> 0, failed |-> 0, doc |-> doc, links |-> links,
     critical |-> critical, non_critical |-> non_critical,
     combined |-> combined, tests |-> EmptyBag]

(* the tests list is kept as a bag of test ids: its order is what sort()   *)
(* rearranges and nothing else reads                                       *)
TagStat_add_test(self, test) ==
    [Stat_add_test(self, test) EXCEPT !.tests = @ (+) SetToBag({test.id})]

TagStat__info(self) ==
    IF self.critical THEN "critical"
    ELSE IF self.non_critical THEN "non-critical"
    ELSE IF self.combined # <<>> THEN "combined"
    ELSE ""

TagStat___cmp__(self, other) ==
    IF self.critical # other.critical
    THEN cmp_bool(other.critical, self.critical)
    ELSE IF self.non_critical # other.non_critical
    THEN cmp_bool(other.non_critical, self.non_critical)
    ELSE IF (self.combined # <<>>) # (other.combined # <<>>)
    THEN cmp_bool(other.combined # <<>>, self.combined # <<>>)
    ELSE cmp_str(self.name, other.name)

(* class CombinedTag                                                       *)
CombinedTag(pattern, name) ==
    [pattern |-> pattern, name |-> IF name = <<>> THEN pattern ELSE name]

CombinedTag_match(self, tags) == TagPatterns_match({self.pattern}, tags)

----------------------------------------------------------------------------
(* class TagStatDoc, class TagStatInfo                                     *)

TagStatDoc(pattern, doc) == [text |-> doc, _pattern |-> {pattern}]

TagStatDoc_matches(self, tag) == TagPatterns_match(self._pattern, {tag})

RECURSIVE MapDocs(_)
MapDocs(docs) ==
    IF docs = <<>> THEN <<>>
    ELSE <<TagStatDoc(Head(docs)[1], Head(docs)[2])>> \o MapDocs(Tail(docs))

RECURSIVE MapLinks(_)
MapLinks(links) ==
    IF links = <<>> THEN <<>>
    ELSE <<TagStatLink(Head(links)[1], Head(links)[2], Head(links)[3])>>
         \o MapLinks(Tail(links))

TagStatInfo(docs, links) == [_docs |-> MapDocs(docs), _links |-> MapLinks(links)]

(* ' & '.join(texts)                                                       *)
RECURSIVE JoinAmp(_)
JoinAmp(texts) ==
    IF texts = <<>> THEN <<>>
    ELSE IF Len(texts) = 1 THEN Head(texts)
    ELSE Head(texts) \o <<" ", "&", " ">> \o JoinAmp(Tail(texts))

RECURSIVE MatchingDocs(_, _)
MatchingDocs(docs, tag) ==
    IF docs = <<>> THEN <<>>
    ELSE (IF TagStatDoc_matches(Head(docs), tag) THEN <<Head(docs).text>> ELSE <<>>)
         \o MatchingDocs(Tail(docs), tag)

TagStatInfo_get_doc(self, tag) == JoinAmp(MatchingDocs(self._docs, tag))

RECURSIVE MatchingLinks(_, _)
MatchingLinks(links, tag) ==
    IF links = <<>> THEN <<>>
    ELSE (IF TagStatLink_matches(Head(links), tag)
          THEN <<TagStatLink_get_link(Head(links), tag)>> ELSE <<>>)
         \o MatchingLinks(Tail(links), tag)

TagStatInfo_get_links(self, tag) == MatchingLinks(self._links, tag)

----------------------------------------------------------------------------
(* class TagStatistics.  stats is the NormalizedDict: a function from the  *)
(* normalized key to the TagStat stored under it.                          *)

HasKey(stats, name) == Normalize(name) \in DOMAIN stats

(* stats[name] = value                                                     *)
SetItem(stats, name, value) ==
    IF HasKey(stats, name) THEN [stats EXCEPT ![Normalize(name)] = value]
    ELSE stats @@ (Normalize(name) :> value)

(* the loop of _create_combined over combines[i..]                         *)
RECURSIVE SeedCombined(_, _, _, _)
SeedCombined(stats, info, combines, i) ==
    IF i > Len(combines) THEN stats
    ELSE LET comb == combines[i]
         IN SeedCombined(SetItem(stats, comb.name,
                                 TagStat(comb.name,
                                         TagStatInfo_get_doc(info, comb.name),
                                         TagStatInfo_get_links(info, comb.name),
                                         FALSE, FALSE, comb.pattern)),
                         info, combines, i + 1)

RECURSIVE MapCombined(_)
MapCombined(combine) ==
    IF combine = <<>> THEN <<>>
    ELSE <<CombinedTag(Head(combine)[1], Head(combine)[2])>>
         \o MapCombined(Tail(combine))

(* TagStatistics.__init__                                                  *)
TagStatistics(include, exclude, combine, docs, links) ==
    LET info == TagStatInfo(docs, links)
        combines == MapCombined(combine)
    IN [stats |-> SeedCombined(<<>>, info, combines, 1),
        _include |-> include,
        _exclude |-> exclude,
        _info |-> info,
        _combine |-> combines]

TagStatistics__is_included(self, tag) ==
    IF self._include # {} /\ ~TagPatterns_match(self._include, {tag}) THEN FALSE
    ELSE ~TagPatterns_match(self._exclude, {tag})

(* the loop of _add_tags_statistics over test.tags[i..]                    *)
RECURSIVE AddTagsLoop(_, _, _, _, _)
AddTagsLoop(self, stats, test, critical, i) ==
    IF i > Len(test.tags) THEN stats
    ELSE LET tag == test.tags[i] IN
         IF ~TagStatistics__is_included(self, tag)
         THEN AddTagsLoop(self, stats, test, critical, i + 1)
         ELSE LET created ==
                      IF HasKey(stats, tag) THEN stats
                      ELSE SetItem(stats, tag,
                                   TagStat(tag,
                                           TagStatInfo_get_doc(self._info, tag),
                                           TagStatInfo_get_links(self._info, tag),
                                           is_critical(critical, tag),
                                           is_non_critical(critical, tag),
                                           <<>>))
              IN AddTagsLoop(self,
                             [created EXCEPT ![Normalize(tag)] = TagStat_add_test(@, test)],
                             test, critical, i + 1)

TagStatistics__add_tags_statistics(self, test, critical) ==
    [self EXCEPT !.stats = AddTagsLoop(self, self.stats, test, critical, 1)]

(* the tags _add_combined_statistics hands to comb.match                   *)
CombinedInput_Included(self, test) ==
    {tag \in Range(test.tags) : TagStatistics__is_included(self, tag)}
CombinedInput(self, test) == Range(test.tags)

(* the loop of _add_combined_statistics over _combine[i..]                 *)
RECURSIVE AddCombinedLoop(_, _, _, _)
AddCombinedLoop(self, stats, test, i) ==
    IF i > Len(self._combine) THEN stats
    ELSE LET comb == self._combine[i] IN
         AddCombinedLoop(self,
                         IF CombinedTag_match(comb, CombinedInput(self, test))
                         THEN [stats EXCEPT ![Normalize(comb.name)] =
                                                TagStat_add_test(@, test)]
                         ELSE stats,
                         test, i + 1)

TagStatistics__add_combined_statistics(self, test) ==
    [self EXCEPT !.stats = AddCombinedLoop(self, self.stats, test, 1)]

TagStatistics_add_test(self, test, critical) ==
    TagStatistics__add_combined_statistics(
        TagStatistics__add_tags_statistics(self, test, critical), test)

(* sorted(values): the least element under __cmp__ first                   *)
RECURSIVE sorted(_)
sorted(values) ==
    IF values = {} THEN <<>>
    ELSE LET least == CHOOSE x \in values :
                          \A y \in values : TagStat___cmp__(x, y) <= 0
         IN <<least>> \o sorted(values \ {least})

(* TagStatistics.__iter__                                                  *)
TagStatistics___iter__(self) ==
    sorted({self.stats[k] : k \in DOMAIN self.stats})

(* TagStatistics.sort: every tests list is sorted in place; the bag a list *)
(* holds is the same before and after                                      *)
TagStatistics_sort(self) == self

----------------------------------------------------------------------------
(* The suite tree and the inputs of Statistics                             *)

(* the suite tree is read as the visitor walks it: parent, tests and       *)
(* suite_critical hold the part walked so far, suites and tests numbered   *)
(* in the order they are met                                               *)

(* the child suites of suite s, the suites below and including s, and the  *)
(* nesting depth of s                                                      *)
Children(p, s) == {c \in DOMAIN p : p[c] = s}

RECURSIVE Subtree(_, _)
Subtree(p, s) == {s} \cup UNION {Subtree(p, c) : c \in Children(p, s)}

RECURSIVE Depth(_, _)
Depth(p, s) == IF p[s] = 0 THEN 0 ELSE 1 + Depth(p, p[s])

(* the tag lists a test of the tree carries                                *)
TreeTestTags == {<< <<"a">>, <<"B", "_", "b">> >>}

(* the classifiers a suite of the tree carries; the top suite carries the  *)
(* first                                                                   *)
TopCriticality == Criticality({}, {})

TreeCriticalities ==
    {TopCriticality, Criticality({<<"a">>}, {<<"b", "b">>})}

(* the settings the tree is aggregated under: one combined tag, one doc    *)
(* rule, one link rule                                                     *)
TreeSettings ==
    {[include |-> {}, exclude |-> {<<"a">>},
      combine |-> << <<<<"a", "&", "b", "b">>, <<>>>> >>,
      docs |-> << <<<<"b", "b">>, <<"d">>>> >>,
      links |-> << <<<<"?", "*">>, <<"%", "2">>, <<"t", "_", "%", "1">>>> >>]}

(* the test met as number i, in suite s                                    *)
NewTest(i, s, status, critical, tags) ==
    [id |-> i, suite |-> s, status |-> status, critical |-> critical, tags |-> tags]

NoTagStatistics == TagStatistics({}, {}, <<>>, <<>>, <<>>)
NoClassifier == Criticality({}, {})
NoLink == TagStatLink(<<>>, <<>>, <<>>)
NoLinkIn == [pattern |-> <<>>, link |-> <<>>, title |-> <<>>, tag |-> <<>>]
NoTotalStatistics == [critical |-> Stat(""), all |-> Stat("")]
NoCall == [op |-> "none", status |-> "PASS", other |-> Stat("")]

(* the parts of the state an aggregation does not use                      *)
LinkIdle == link_in = NoLinkIn /\ link_obj = NoLink /\ link_out = <<>>
StatIdle == stat = Stat("") /\ stat_last = NoCall /\ stat_log = <<>>
TreeIdle ==
    /\ parent = <<>>
    /\ suite_critical = <<>>
    /\ _suite_stat_level = -1
    /\ vstack = <<>>
    /\ _parents = <<>>
    /\ _current_suite_stat = Wrapper
    /\ _current_suite = 0
    /\ heap = <<>>
    /\ self_suite = Wrapper
    /\ self_total = NoTotalStatistics

Init ==
    /\ pc = "new"
    /\ parent = <<>>
    /\ tests = <<>>
    /\ suite_critical = <<>>
    /\ _suite_stat_level \in Levels
    /\ settings \in TreeSettings
    /\ vstack = <<>>
    /\ _parents = <<>>
    /\ _current_suite_stat = Wrapper
    /\ _current_suite = 0
    /\ heap = <<>>
    /\ self_suite = Wrapper
    /\ self_total = NoTotalStatistics
    /\ self_tags = NoTagStatistics
    /\ tags_last = NoClassifier
    /\ LinkIdle
    /\ StatIdle

----------------------------------------------------------------------------
(* class Statistics, class StatisticsBuilder *)

(* Statistics.__init__, first statement: the TagStatistics is created      *)
Statistics_tags ==
    /\ pc = "new"
    /\ self_tags' = TagStatistics(settings.include, settings.exclude,
                                  settings.combine, settings.docs, settings.links)
    /\ pc' = "build"
    /\ UNCHANGED <<inputVars, visitorVars, builderVars, resultVars, tags_last,
                   linkVars, statVars>>

(* StatisticsBuilder.__init__ and build up to the call of visit_suite      *)
build ==
    /\ pc = "build"
    /\ _parents' = <<>>
    /\ heap' = (Wrapper :> SuiteStatistics(Top))
    /\ _current_suite_stat' = Wrapper
    /\ pc' = "visit"
    /\ UNCHANGED <<inputVars, visitorVars, _current_suite, resultVars, tagVars,
                   linkVars, statVars>>

(* the condition of start_suite under which the new node is appended to    *)
(* the current node's suites                                               *)
IsShown_Inclusive(suite_stat_level, parents) ==
    suite_stat_level = -1 \/ Len(parents) <= suite_stat_level
IsShown(suite_stat_level, parents) ==
    suite_stat_level = -1 \/ Len(parents) < suite_stat_level

(* self._parents.append(self._current_suite_stat)                          *)
_parents_append_Twice(parents, current_suite_stat) ==
    Append(Append(parents, current_suite_stat), current_suite_stat)
_parents_append(parents, current_suite_stat) ==
    Append(parents, current_suite_stat)

(* the visitor enters a suite: the top suite first, then any further child *)
(* suite of the open suite; a child suite has a classifier of its own,     *)
(* another one than its parent's                                           *)
VisitorEnters(critical) ==
    /\ Len(parent) < MaxSuites
    /\ IF vstack = <<>> THEN parent = <<>> /\ critical = TopCriticality
       ELSE critical # suite_critical[Last(vstack)]

start_suite(critical) ==
    /\ pc = "visit"
    /\ VisitorEnters(critical)
    /\ LET s == Len(parent) + 1 IN
       /\ heap' = IF IsShown(_suite_stat_level, _parents)
                  THEN [heap EXCEPT ![_current_suite_stat].suites = Append(@, s)]
                       @@ (s :> SuiteStatistics(s))
                  ELSE heap @@ (s :> SuiteStatistics(s))
       /\ _parents' = _parents_append(_parents, _current_suite_stat)
       /\ _current_suite_stat' = s
       /\ _current_suite' = s
       /\ vstack' = Append(vstack, s)
       /\ parent' = Append(parent, IF vstack = <<>> THEN 0 ELSE Last(vstack))
       /\ suite_critical' = Append(suite_critical, critical)
    /\ UNCHANGED <<pc, tests, _suite_stat_level, settings, resultVars, tagVars,
                   linkVars, statVars>>

(* the visitor visits a further test of the open suite                     *)
VisitorVisits ==
    /\ Len(tests) < MaxTests
    /\ vstack # <<>>

visit_test(status, critical, tags) ==
    /\ pc = "visit"
    /\ VisitorVisits
    /\ LET test == NewTest(Len(tests) + 1, Last(vstack), status, critical, tags) IN
       /\ heap' = [heap EXCEPT ![_current_suite_stat] =
                                   SuiteStatistics_add_test(@, test)]
       /\ self_tags' = TagStatistics_add_test(self_tags, test,
                                              suite_critical[_current_suite])
       /\ tests' = Append(tests, test)
    /\ UNCHANGED <<pc, parent, suite_critical, _suite_stat_level, settings, vstack,
                   _parents, _current_suite_stat, _current_suite, resultVars,
                   tags_last, linkVars, statVars>>

(* the two add_stat calls of end_suite: what the parent node becomes       *)
Merge_ShownOnly(parent_stat, current) ==
    IF IsShown(_suite_stat_level, Front(_parents))
    THEN [parent_stat EXCEPT !.all = Stat_add_stat(@, current.all),
                             !.critical = Stat_add_stat(@, current.critical)]
    ELSE parent_stat
Merge_AllOnly(parent_stat, current) ==
    [parent_stat EXCEPT !.all = Stat_add_stat(@, current.all)]
Merge_Twice(parent_stat, current) ==
    [parent_stat EXCEPT
        !.all = Stat_add_stat(Stat_add_stat(@, current.all), current.all),
        !.critical = Stat_add_stat(Stat_add_stat(@, current.critical),
                                   current.critical)]
Merge(parent_stat, current) ==
    [parent_stat EXCEPT !.all = Stat_add_stat(@, current.all),
                        !.critical = Stat_add_stat(@, current.critical)]

(* the visitor leaves the open suite when it has no further child suite or *)
(* test                                                                    *)
VisitorLeaves == vstack # <<>>

end_suite ==
    /\ pc = "visit"
    /\ VisitorLeaves
    /\ IF _parents # <<>>
       THEN /\ heap' = [heap EXCEPT ![Last(_parents)] =
                                        Merge(@, heap[_current_suite_stat])]
            /\ _current_suite_stat' = Last(_parents)
            /\ _parents' = Front(_parents)
       ELSE UNCHANGED <<heap, _current_suite_stat, _parents>>
    /\ vstack' = Front(vstack)
    /\ pc' = IF Len(vstack) = 1 THEN "return" ELSE "visit"
    /\ UNCHANGED <<inputVars, _current_suite, resultVars, tagVars, linkVars,
                   statVars>>

(* the return statement of build: suites[0] of the current node, an        *)
(* IndexError when that list is empty                                      *)
build_return ==
    /\ pc = "return"
    /\ IF heap[_current_suite_stat].suites = <<>>
       THEN pc' = "IndexError" /\ UNCHANGED self_suite
       ELSE pc' = "sort" /\ self_suite' = heap[_current_suite_stat].suites[1]
    /\ UNCHANGED <<inputVars, visitorVars, builderVars, self_total, tagVars,
                   linkVars, statVars>>

(* Statistics.__init__: self.tags.sort()                                   *)
Statistics_sort ==
    /\ pc = "sort"
    /\ self_tags' = TagStatistics_sort(self_tags)
    /\ pc' = "total"
    /\ UNCHANGED <<inputVars, visitorVars, builderVars, resultVars, tags_last,
                   linkVars, statVars>>

(* Statistics.__init__: self.total = TotalStatistics(self.suite)           *)
Statistics_total ==
    /\ pc = "total"
    /\ self_total' = TotalStatistics(heap[self_suite])
    /\ pc' = "done"
    /\ UNCHANGED <<inputVars, visitorVars, builderVars, self_suite, tagVars,
                   linkVars, statVars>>

Next ==
    \/ Statistics_tags
    \/ build
    \/ \E critical \in TreeCriticalities : start_suite(critical)
    \/ \E status \in Statuses, critical \in YesNo, tags \in TreeTestTags :
          visit_test(status, critical, tags)
    \/ end_suite
    \/ build_return
    \/ Statistics_sort
    \/ Statistics_total

Spec == Init /\ [][Next]_vars

----------------------------------------------------------------------------
(* The tag statistics on their own: a TagStatistics is created from the    *)
(* settings and add_test is called with one test after the other, each     *)
(* time with some criticality classifier.                                  *)

(* the tag lists of a test: no tag, one tag in one of its spellings, two   *)
(* different tags; test.tags is a robot.model.Tags, which holds no two     *)
(* tags that are equal after normalization                                 *)
TagLists ==
    {<<>>, << <<"a">> >>, << <<"A", "_">> >>, << <<"b">> >>,
     << <<"a">>, <<"b">> >>, << <<"b">>, <<"A", "_">> >>}

TagCriticalities ==
    {Criticality({}, {}),
     Criticality({<<"a">>, <<"b">>}, {<<"b">>}),
     Criticality({}, {<<"a">>})}

TagCombines ==
    {<<>>,
     << <<<<"a", "&", "b">>, <<>>>> >>,
     << <<<<"b">>, <<"a">>>> >>,
     << <<<<"a", "&", "b">>, <<"c">>>>, <<<<"b">>, <<"C">>>> >>}

TagSettings ==
    [include : {{}, {<<"a">>}},
     exclude : {{}, {<<"b">>}, {<<"a">>, <<"b">>}},
     combine : TagCombines,
     docs : {<< <<<<"a">>, <<"d">>>> >>},
     links : {<< <<<<"?", "*">>, <<"%", "1">>, <<"t", "_", "%", "2">>>> >>}]

Init_Tags ==
    /\ pc = "tags_new"
    /\ TreeIdle
    /\ LinkIdle
    /\ StatIdle
    /\ settings \in TagSettings
    /\ tests = <<>>
    /\ self_tags = NoTagStatistics
    /\ tags_last = NoClassifier

(* TagStatistics.__init__                                                  *)
TagStatistics_init ==
    /\ pc = "tags_new"
    /\ self_tags' = TagStatistics(settings.include, settings.exclude,
                                  settings.combine, settings.docs, settings.links)
    /\ pc' = "tags"
    /\ UNCHANGED <<inputVars, visitorVars, builderVars, resultVars, tags_last,
                   linkVars, statVars>>

(* TagStatistics.add_test(test, critical) with a further test              *)
add_test(status, tags, critical) ==
    /\ pc = "tags"
    /\ Len(tests) < MaxTests
    /\ LET test == NewTest(Len(tests) + 1, Top, status, "no", tags) IN
       /\ self_tags' = TagStatistics_add_test(self_tags, test, critical)
       /\ tests' = Append(tests, test)
       /\ tags_last' = critical
    /\ UNCHANGED <<pc, parent, suite_critical, _suite_stat_level, settings,
                   visitorVars, builderVars, resultVars, linkVars, statVars>>

Next_Tags ==
    \/ TagStatistics_init
    \/ \E status \in Statuses, tags \in TagLists, critical \in TagCriticalities :
          add_test(status, tags, critical)

SpecTags == Init_Tags /\ [][Next_Tags]_vars

----------------------------------------------------------------------------
(* One link rule on its own: a TagStatLink is created from a pattern and   *)
(* two templates, then get_link is called with a tag.                      *)

PatternChars == {"*", "?", "A", "_"}
LinkTagChars == {"a", "%", "2", "_"}

Strings(chars, n) == UNION {[1..k -> chars] : k \in 0..n}

(* a link template with its title template                                 *)
LinkTemplates ==
    {[link |-> <<"%", "1">>, title |-> <<"_", "%", "1">>],
     [link |-> <<"%", "2", "_", "%", "1">>, title |-> <<"%", "1", "%", "2">>]}

Init_Link ==
    /\ pc = "link_new"
    /\ TreeIdle
    /\ StatIdle
    /\ settings \in TreeSettings
    /\ tests = <<>>
    /\ self_tags = NoTagStatistics
    /\ tags_last = NoClassifier
    /\ link_in \in {[pattern |-> pattern, link |-> t.link, title |-> t.title,
                      tag |-> tag] :
                        pattern \in Strings(PatternChars, MaxPatternLen),
                        t \in LinkTemplates,
                        tag \in Strings(LinkTagChars, MaxTagLen)}
    /\ link_obj = NoLink
    /\ link_out = <<>>

(* TagStatLink.__init__; re.compile raises when the text is no expression  *)
TagStatLink_init ==
    /\ pc = "link_new"
    /\ link_obj' = TagStatLink(link_in.pattern, link_in.link, link_in.title)
    /\ pc' = IF re_compiles(link_obj'._regexp) THEN "link_ready" ELSE "re_error"
    /\ UNCHANGED <<inputVars, visitorVars, builderVars, resultVars, tagVars,
                   link_in, link_out, statVars>>

(* TagStatLink.get_link(tag)                                               *)
get_link ==
    /\ pc = "link_ready"
    /\ link_out' = TagStatLink_get_link(link_obj, link_in.tag)
    /\ pc' = "link_done"
    /\ UNCHANGED <<inputVars, visitorVars, builderVars, resultVars, tagVars,
                   link_in, link_obj, statVars>>

Next_Link ==
    \/ TagStatLink_init
    \/ get_link

SpecLink == Init_Link /\ [][Next_Link]_vars

----------------------------------------------------------------------------
(* One Stat on its own: add_test and add_stat are called in any order.     *)

StatStatuses == {"PASS", "FAIL", "NOT_RUN"}

OtherStats == {[name |-> "", passed |-> p, failed |-> f] : p \in 0..1, f \in 0..1}

Init_Stat ==
    /\ pc = "stat"
    /\ TreeIdle
    /\ LinkIdle
    /\ settings \in TreeSettings
    /\ tests = <<>>
    /\ self_tags = NoTagStatistics
    /\ tags_last = NoClassifier
    /\ stat = Stat("")
    /\ stat_last = NoCall
    /\ stat_log = <<>>

(* stat.add_test(test)                                                     *)
Stat_call_add_test(status) ==
    /\ pc = "stat"
    /\ Stat_total(stat) < MaxCount
    /\ Len(stat_log) < MaxCalls
    /\ stat' = Stat_add_test(stat, [status |-> status])
    /\ stat_last' = [op |-> "add_test", status |-> status, other |-> Stat("")]
    /\ stat_log' = Append(stat_log, stat_last')
    /\ UNCHANGED <<pc, inputVars, visitorVars, builderVars, resultVars, tagVars,
                   linkVars>>

(* stat.add_stat(other)                                                    *)
Stat_call_add_stat(other) ==
    /\ pc = "stat"
    /\ Stat_total(stat) + Stat_total(other) <= MaxCount
    /\ Len(stat_log) < MaxCalls
    /\ stat' = Stat_add_stat(stat, other)
    /\ stat_last' = [op |-> "add_stat", status |-> "PASS", other |-> other]
    /\ stat_log' = Append(stat_log, stat_last')
    /\ UNCHANGED <<pc, inputVars, visitorVars, builderVars, resultVars, tagVars,
                   linkVars>>

Next_Stat ==
    \/ \E status \in StatStatuses : Stat_call_add_test(status)
    \/ \E other \in OtherStats : Stat_call_add_stat(other)

SpecStat == Init_Stat /\ [][Next_Stat]_vars


----------------------------------------------------------------------------
(* Reference counts, taken from the suite tree alone                       *)

(* the tests of the suites in S with a status in sts and a criticality in  *)
(* crs                                                                     *)
TestsIn(S, sts, crs) ==
    {t \in DOMAIN tests : /\ tests[t].suite \in S
                          /\ tests[t].status \in sts
                          /\ tests[t].critical \in crs}

NumTests(S, sts, crs) == Cardinality(TestsIn(S, sts, crs))

(* build has returned a node                                               *)
Built == pc \in {"sort", "total", "done"}

(* the nodes of the output tree below and including node n                 *)
RECURSIVE Shown(_)
Shown(n) == {n} \cup UNION {Shown(heap[n].suites[i]) : i \in DOMAIN heap[n].suites}

AllTotal(n) == Stat_total(heap[n].all)
CriticalTotal(n) == Stat_total(heap[n].critical)

RECURSIVE SumAll(_)
SumAll(nodes) ==
    IF nodes = <<>> THEN 0 ELSE AllTotal(Head(nodes)) + SumAll(Tail(nodes))

RECURSIVE SumCritical(_)
SumCritical(nodes) ==
    IF nodes = <<>> THEN 0
    ELSE CriticalTotal(Head(nodes)) + SumCritical(Tail(nodes))

----------------------------------------------------------------------------
(* Properties of the suite aggregation                                     *)

(* C1: once build has returned, the root's all.total is the number of      *)
(* tests of the whole tree, whatever the depth limit.                      *)
C1_RootCountsEveryTest ==
    Built => Stat_total(heap[self_suite].all) = Len(tests)

(* a depth limit of 1 hides every suite below the top suite, and a test of *)
(* a suite two levels down is in the root's total                          *)
C1_Witness ==
    /\ pc = "done"
    /\ _suite_stat_level = 1
    /\ Len(tests) = MaxTests
    /\ \E t \in DOMAIN tests : Depth(parent, tests[t].suite) = 2
    /\ heap[self_suite].suites = <<>>
    /\ Stat_total(heap[self_suite].all) = MaxTests

(* C2: once build has returned, the root's critical.total is the number of *)
(* tests with critical == 'yes', and it is at most all.total.              *)
C2_RootCriticalCount ==
    Built =>
        /\ Stat_total(heap[self_suite].critical)
               = NumTests(DOMAIN parent, Statuses, {"yes"})
        /\ Stat_total(heap[self_suite].critical) <= Stat_total(heap[self_suite].all)

(* a critical and a non-critical test below the top suite                  *)
C2_Witness ==
    /\ pc = "done"
    /\ \E t, u \in DOMAIN tests :
          /\ tests[t].critical = "yes" /\ tests[t].suite # Top
          /\ tests[u].critical = "no" /\ tests[u].suite # Top
    /\ Stat_total(heap[self_suite].critical) = 1
    /\ Stat_total(heap[self_suite].all) = 2

(* C3: every node of the output tree carries the counts of its suite's     *)
(* whole subtree, shown or not; the counts depend on the suite tree only,  *)
(* so a suite shown under two depth limits has the same counts under both. *)
C3_CountsIndependentOfDepth ==
    Built =>
        \A n \in Shown(self_suite) :
            /\ heap[n].all.passed = NumTests(Subtree(parent, n), {"PASS"}, YesNo)
            /\ heap[n].all.failed = NumTests(Subtree(parent, n), {"FAIL"}, YesNo)
            /\ heap[n].critical.passed = NumTests(Subtree(parent, n), {"PASS"}, {"yes"})
            /\ heap[n].critical.failed = NumTests(Subtree(parent, n), {"FAIL"}, {"yes"})

(* under depth limit 2 the suite one level down is a leaf of the output    *)
(* tree and counts a passed critical test of its hidden child suite        *)
C3_Witness ==
    /\ pc = "done"
    /\ _suite_stat_level = 2
    /\ \E n \in Shown(self_suite) :
          /\ n # self_suite
          /\ heap[n].suites = <<>>
          /\ \E c \in Children(parent, n) :
                TestsIn({c}, {"PASS"}, {"yes"}) # {}
          /\ heap[n].critical.passed >= 1

(* C4 as stated: the total of a node with children is the sum of the       *)
(* totals of its children, for the all and for the critical roll-up.       *)
C4_ParentIsSumOfChildren ==
    Built =>
        \A n \in Shown(self_suite) \cup {Wrapper} :
            heap[n].suites # <<>> =>
                /\ AllTotal(n) = SumAll(heap[n].suites)
                /\ CriticalTotal(n) = SumCritical(heap[n].suites)

(* the tests directly in the suite of node n; the wrapper has none         *)
OwnTests(n, crs) == IF n = Wrapper THEN 0 ELSE NumTests({n}, Statuses, crs)

(* C4 amended: the total of a node with children is the number of tests    *)
(* directly in its suite that the roll-up counts plus the sum of the       *)
(* totals of its children.                                                 *)
C4_ParentIsOwnPlusChildren ==
    Built =>
        \A n \in Shown(self_suite) \cup {Wrapper} :
            heap[n].suites # <<>> =>
                /\ AllTotal(n) = OwnTests(n, YesNo) + SumAll(heap[n].suites)
                /\ CriticalTotal(n) = OwnTests(n, {"yes"})
                                        + SumCritical(heap[n].suites)

(* a node with a critical test of its own and a child that has one too     *)
C4_Witness ==
    /\ pc = "done"
    /\ \E n \in Shown(self_suite) :
          /\ heap[n].suites # <<>>
          /\ OwnTests(n, {"yes"}) = 1
          /\ SumCritical(heap[n].suites) = 1
          /\ CriticalTotal(n) = 2

(* C7: a constructed Statistics has total.critical named 'Critical Tests'  *)
(* with the root's critical counts and total.all named 'All Tests' with    *)
(* the root's all counts, in that order when iterated; the totals are set  *)
(* only when the traversal is over, and count every test of the tree.      *)
C7_TotalsSnapshot ==
    /\ pc = "done" =>
          /\ TotalStatistics_iter(self_total)
                = << [name |-> "Critical Tests",
                      passed |-> heap[self_suite].critical.passed,
                      failed |-> heap[self_suite].critical.failed],
                     [name |-> "All Tests",
                      passed |-> heap[self_suite].all.passed,
                      failed |-> heap[self_suite].all.failed] >>
          /\ self_total.all.passed = NumTests(DOMAIN parent, {"PASS"}, YesNo)
          /\ self_total.all.failed = NumTests(DOMAIN parent, {"FAIL"}, YesNo)
          /\ self_total.critical.passed = NumTests(DOMAIN parent, {"PASS"}, {"yes"})
          /\ self_total.critical.failed = NumTests(DOMAIN parent, {"FAIL"}, {"yes"})
    /\ self_total # NoTotalStatistics =>
          pc = "done" /\ vstack = <<>>

(* totals of a tree with a failed non-critical and a passed critical test  *)
C7_Witness ==
    /\ pc = "done"
    /\ self_total.all.name = "All Tests"
    /\ self_total.all.passed = 1 /\ self_total.all.failed = 1
    /\ self_total.critical.passed = 1 /\ self_total.critical.failed = 0

----------------------------------------------------------------------------
(* Properties of the tag statistics                                        *)

(* the TagStat a combined tag definition counts into                       *)
CombinedStat(comb) == self_tags.stats[Normalize(comb.name)]

(* the added tests whose tags match the definition                         *)
MatchingAdded(comb) ==
    {t \in DOMAIN tests : CombinedTag_match(comb, Range(tests[t].tags))}

(* the definitions stored under the same key as comb that test t matches   *)
MatchingDefinitions(comb, t) ==
    {i \in DOMAIN self_tags._combine :
        /\ Normalize(self_tags._combine[i].name) = Normalize(comb.name)
        /\ CombinedTag_match(self_tags._combine[i], Range(tests[t].tags))}

(* C5: every added test whose tags match a combined tag definition is      *)
(* counted in that definition's TagStat, once for the definition at least, *)
(* whether or not the include/exclude filters let any of its tags through. *)
C5_CombinedIgnoresFilter ==
    pc = "tags" =>
        \A i \in DOMAIN self_tags._combine :
            LET comb == self_tags._combine[i] IN
            /\ \A t \in MatchingAdded(comb) :
                  CopiesIn(t, CombinedStat(comb).tests)
                      >= Cardinality(MatchingDefinitions(comb, t))
            /\ Stat_total(CombinedStat(comb)) >= Cardinality(MatchingAdded(comb))

(* a test with tags, none of which passes the filter, is counted in the    *)
(* combined tag its tags match, and no literal tag has a TagStat           *)
C5_Witness ==
    /\ pc = "tags"
    /\ \E i \in DOMAIN self_tags._combine : \E t \in DOMAIN tests :
          /\ tests[t].tags # <<>>
          /\ \A tag \in Range(tests[t].tags) :
                ~TagStatistics__is_included(self_tags, tag)
          /\ t \in MatchingAdded(self_tags._combine[i])
          /\ CopiesIn(t, CombinedStat(self_tags._combine[i]).tests) = 1
          /\ DOMAIN self_tags.stats = {Normalize(self_tags._combine[i].name)}

(* the bucket of a TagStat: critical, non-critical, combined, plain        *)
Bucket(tag_stat) ==
    IF tag_stat.critical THEN 0
    ELSE IF tag_stat.non_critical THEN 1
    ELSE IF tag_stat.combined # <<>> THEN 2
    ELSE 3

InBucketOrder(x, y) ==
    \/ Bucket(x) < Bucket(y)
    \/ Bucket(x) = Bucket(y) /\ cmp_str(x.name, y.name) < 0

(* C6: iterating the TagStatistics yields critical tags, then non-critical *)
(* tags, then combined tags, then plain tags, each bucket ascending by     *)
(* name, whatever flags the TagStats carry.                                *)
C6_IterationInBucketOrder ==
    pc = "tags" =>
        LET it == TagStatistics___iter__(self_tags) IN
        \A i, j \in DOMAIN it : i < j => InBucketOrder(it[i], it[j])

----------------------------------------------------------------------------
(* Properties of the link rules                                            *)

(* the wildcard runs of a pattern in source order: n > 0 for a maximal run *)
(* of n '?', 0 for a '*'                                                   *)
RECURSIVE RunsFrom(_, _)
RunsFrom(pattern, i) ==
    IF i > Len(pattern) THEN <<>>
    ELSE IF pattern[i] = "*" THEN <<0>> \o RunsFrom(pattern, i + 1)
    ELSE IF pattern[i] = "?"
    THEN LET last == CHOOSE k \in i..Len(pattern) :
                         /\ \A m \in i..k : pattern[m] = "?"
                         /\ (k = Len(pattern) \/ pattern[k + 1] # "?")
         IN <<last - i + 1>> \o RunsFrom(pattern, last + 1)
    ELSE RunsFrom(pattern, i + 1)

Runs(pattern) == RunsFrom(pattern, 1)

(* the groups of an expression in order: n > 0 for a group of n dots, 0    *)
(* for a group of dot-star, -1 for any other group                         *)
RECURSIVE GroupsFrom(_, _)
GroupsFrom(re, i) ==
    IF i > Len(re) THEN <<>>
    ELSE IF re[i] = "\\" THEN GroupsFrom(re, i + 2)
    ELSE IF re[i] = "("
    THEN LET close == CHOOSE k \in i..Len(re) :
                          re[k] = ")" /\ \A m \in i..(k - 1) : re[m] # ")"
             inside == SubSeq(re, i + 1, close - 1)
         IN << IF inside = <<".", "*">> THEN 0
               ELSE IF inside # <<>> /\ \A m \in DOMAIN inside : inside[m] = "."
               THEN Len(inside)
               ELSE -1 >> \o GroupsFrom(re, close + 1)
    ELSE GroupsFrom(re, i + 1)

(* the pattern with each wildcard run replaced by the group captured for   *)
(* it, g being the number of the next group                                *)
RECURSIVE FillFrom(_, _, _, _)
FillFrom(pattern, i, groups, g) ==
    IF i > Len(pattern) THEN <<>>
    ELSE IF pattern[i] = "*"
    THEN groups[g] \o FillFrom(pattern, i + 1, groups, g + 1)
    ELSE IF pattern[i] = "?"
    THEN (IF i > 1 /\ pattern[i - 1] = "?"
          THEN FillFrom(pattern, i + 1, groups, g)
          ELSE groups[g] \o FillFrom(pattern, i + 1, groups, g + 1))
    ELSE <<pattern[i]>> \o FillFrom(pattern, i + 1, groups, g)

RECURSIVE LowerAll(_)
LowerAll(s) == IF s = <<>> THEN <<>> ELSE <<Lower(Head(s))>> \o LowerAll(Tail(s))

(* C8: the expression compiled from a pattern has one group per maximal    *)
(* run of '?' and one per '*', in source order, every one closed; on a     *)
(* match a run of n '?' captures n characters, a '*' captures any number,  *)
(* and the captures are the parts of the tag the runs stand for.           *)
C8_OneGroupPerRun ==
    /\ pc # "re_error"
    /\ pc \in {"link_ready", "link_done"} =>
          LET match == re_match(link_obj._regexp, link_in.tag)
              runs == Runs(link_in.pattern)
          IN /\ re_compiles(link_obj._regexp)
             /\ GroupsFrom(link_obj._regexp, 1) = runs
             /\ (pc = "link_done" /\ match.ok) =>
                   /\ Len(match.groups) = Len(runs)
                   /\ \A k \in DOMAIN runs :
                         runs[k] > 0 => Len(match.groups[k]) = runs[k]
                   /\ LowerAll(FillFrom(link_in.pattern, 1, match.groups, 1))
                          = LowerAll(link_in.tag)

(* a pattern that ends in a run of two '?' after a '*' matches a tag: two  *)
(* groups, the second of two characters                                    *)
C8_Witness ==
    /\ pc = "link_done"
    /\ link_in.pattern = <<"*", "?", "?">>
    /\ link_in.tag = <<"a", "%", "2">>
    /\ re_match(link_obj._regexp, link_in.tag).groups = << <<"a">>, <<"%", "2">> >>

(* the template with every placeholder %k, k a group number, replaced by   *)
(* group k; the inserted text is not looked at again                       *)
RECURSIVE SubstituteFrom(_, _, _)
SubstituteFrom(template, i, groups) ==
    IF i > Len(template) THEN <<>>
    ELSE IF \E k \in DOMAIN groups : StartsWithAt(template, i, <<"%">> \o str(k))
    THEN LET k == CHOOSE n \in DOMAIN groups :
                      StartsWithAt(template, i, <<"%">> \o str(n))
         IN groups[k] \o SubstituteFrom(template, i + 1 + Len(str(k)), groups)
    ELSE <<template[i]>> \o SubstituteFrom(template, i + 1, groups)

(* C9: for a matching tag get_link returns the link template and the title *)
(* template (its underscores turned into spaces first) with each %i        *)
(* replaced by the i-th captured group, the group's text inserted as it    *)
(* is.                                                                     *)
C9_GroupsInsertedLiterally ==
    pc = "link_done" =>
        LET match == re_match(link_obj._regexp, link_in.tag) IN
        match.ok =>
            link_out = << SubstituteFrom(link_in.link, 1, match.groups),
                          SubstituteFrom(replace(link_in.title, <<"_">>, <<" ">>),
                                         1, match.groups) >>

----------------------------------------------------------------------------
(* Properties of Stat                                                      *)

(* C10: a call of add_test adds one to passed and leaves failed when the   *)
(* test's status is 'PASS', adds one to failed and leaves passed for any   *)
(* other status; total grows by one.                                       *)
C10_AddTestCountsOnce ==
    [][stat_last'.op = "add_test" =>
          /\ IF stat_last'.status = "PASS"
             THEN stat'.passed = stat.passed + 1 /\ stat'.failed = stat.failed
             ELSE stat'.failed = stat.failed + 1 /\ stat'.passed = stat.passed
          /\ Stat_total(stat') = Stat_total(stat) + 1]_vars

(* add_test was called with a status that is neither 'PASS' nor 'FAIL' on  *)
(* a Stat that had counted a passed and a failed test                      *)
C10_Witness ==
    /\ stat_last.op = "add_test"
    /\ stat_last.status = "NOT_RUN"
    /\ stat.passed = 1
    /\ stat.failed = 2

(* the call of the log applied to a Stat                                   *)
ApplyCall(self, call) ==
    IF call.op = "add_test" THEN Stat_add_test(self, [status |-> call.status])
    ELSE Stat_add_stat(self, call.other)

RECURSIVE ApplyCalls(_, _)
ApplyCalls(self, calls) ==
    IF calls = <<>> THEN self
    ELSE ApplyCalls(ApplyCall(self, Head(calls)), Tail(calls))

(* the orders of the log that move add_stat calls only: every add_test     *)
(* call stays where it is                                                  *)
MergeOrders(calls) ==
    LET merges == {i \in DOMAIN calls : calls[i].op = "add_stat"} IN
    {[i \in DOMAIN calls |-> IF i \in merges THEN q[i] ELSE i] :
        q \in Permutations(merges)}

Reordered(calls, p) == [i \in DOMAIN calls |-> calls[p[i]]]

(* C11: the passed and failed counts of a Stat are the same whatever the   *)
(* order in which the Stats merged into it by add_stat were merged.        *)
C11_MergeOrderIrrelevant ==
    pc = "stat" =>
        \A p \in MergeOrders(stat_log) :
            LET result == ApplyCalls(Stat(""), Reordered(stat_log, p)) IN
            /\ result.passed = stat.passed
            /\ result.failed = stat.failed

(* three different Stats, none of them empty, were merged into a Stat that *)
(* had counted a test                                                      *)
C11_Witness ==
    /\ pc = "stat"
    /\ Len(stat_log) = 4
    /\ stat_log[1].op = "add_test"
    /\ \A i \in 2..4 : /\ stat_log[i].op = "add_stat"
                       /\ Stat_total(stat_log[i].other) > 0
    /\ \A i, j \in 2..4 : i # j => stat_log[i].other # stat_log[j].other
    /\ Stat_total(stat) = 5

----------------------------------------------------------------------------
(* Properties of the builder's traversal                                   *)

(* C12: under every depth limit build returns without an error, and the    *)
(* node it returns is the node of the top suite.                           *)
C12_BuildReturnsTop ==
    /\ pc # "IndexError"
    /\ Built => self_suite = Top

(* C13: a visit of a test leaves the tag statistics as add_test makes them *)
(* when it is given the classifier of the suite the test is in, wherever   *)
(* in the traversal of that suite the test is visited.                     *)
C13_ClassifierOfEnclosingSuite ==
    [][tests' # tests =>
          LET test == tests'[Len(tests')] IN
          self_tags' = TagStatistics_add_test(self_tags, test,
                                              suite_critical[test.suite])]_vars

(* the suites a depth limit retains                                        *)
Retained(s) == _suite_stat_level = -1 \/ Depth(parent, s) < _suite_stat_level

(* a set of suites in the order they were entered                          *)
RECURSIVE InOrder(_)
InOrder(S) ==
    IF S = {} THEN <<>>
    ELSE LET first == CHOOSE x \in S : \A y \in S : x <= y
         IN <<first>> \o InOrder(S \ {first})

(* C14: from the moment build has created the wrapper, the suites entered  *)
(* that are nodes of the output tree are those the depth limit retains,    *)
(* and the suites list of the wrapper and of every node of the output tree *)
(* holds the retained child suites in the order they were entered.         *)
C14_RetainedBelowLimit ==
    Wrapper \in DOMAIN heap =>
        /\ Shown(Wrapper) \ {Wrapper} = {s \in DOMAIN parent : Retained(s)}
        /\ \A n \in Shown(Wrapper) :
              heap[n].suites
                  = InOrder({c \in DOMAIN parent : parent[c] = n /\ Retained(c)})
        /\ \A s \in DOMAIN parent :
              (parent[s] # 0 /\ ~Retained(parent[s])) => ~Retained(s)

(* under depth limit 2 of a chain of three suites the first two are nodes  *)
(* of the output tree and the third is not                                 *)
C14_Witness ==
    /\ pc = "done"
    /\ _suite_stat_level = 2
    /\ parent = <<0, 1, 2>>
    /\ heap[Wrapper].suites = <<Top>>
    /\ heap[Top].suites = <<2>>
    /\ heap[2].suites = <<>>

----------------------------------------------------------------------------
(* Properties of the tag map                                               *)

(* the added tests that carry a tag with the normalized name key which the *)
(* filter lets through                                                     *)
Carriers(key, sts) ==
    {t \in DOMAIN tests :
        /\ tests[t].status \in sts
        /\ \E tag \in Range(tests[t].tags) :
              Normalize(tag) = key /\ TagStatistics__is_included(self_tags, tag)}

(* the normalized names of the tags of the added tests                     *)
CarriedKeys ==
    UNION {{Normalize(tag) : tag \in Range(tests[t].tags)} : t \in DOMAIN tests}

(* the TagStat of a literal tag: one that is not the TagStat of a combined *)
(* tag                                                                     *)
HasLiteralStat(key) ==
    key \in DOMAIN self_tags.stats /\ self_tags.stats[key].combined = <<>>

(* C15: a literal tag has a TagStat exactly when an added test carried it  *)
(* and the filter let it through; the TagStat's passed and failed are the  *)
(* numbers of passed and failed added tests that carried it.               *)
C15_LiteralTagCounts ==
    pc = "tags" =>
        \A key \in CarriedKeys \cup DOMAIN self_tags.stats :
            /\ HasLiteralStat(key) <=> Carriers(key, Statuses) # {}
            /\ HasLiteralStat(key) =>
                  /\ self_tags.stats[key].passed = Cardinality(Carriers(key, {"PASS"}))
                  /\ self_tags.stats[key].failed = Cardinality(Carriers(key, {"FAIL"}))

(* the first element of a sequence that satisfies in(_)                    *)
FirstIndex(seq, in(_)) ==
    CHOOSE i \in DOMAIN seq : in(seq[i]) /\ \A j \in 1..(i - 1) : ~in(seq[j])

(* the TagStat carries the name, the doc and links found for that name,    *)
(* and the two flags                                                       *)
IsStatOf(tag_stat, info, name, critical, non_critical) ==
    /\ tag_stat.name = name
    /\ tag_stat.doc = TagStatInfo_get_doc(info, name)
    /\ tag_stat.links = TagStatInfo_get_links(info, name)
    /\ tag_stat.critical = critical
    /\ tag_stat.non_critical = non_critical

(* C16: the map is keyed by normalized names; a TagStat the construction   *)
(* puts into it is that of the first definition with its normalized name,  *)
(* a TagStat an add_test call puts into it is that of the first tag of the *)
(* test with its normalized name, with the flags the call's classifier     *)
(* gives that spelling, and no add_test call changes the name, doc, links  *)
(* or flags of a TagStat that is in the map already.                       *)
C16_FirstSpellingRetained ==
    [][/\ \A key \in DOMAIN self_tags'.stats : Normalize(key) = key
       /\ (pc = "tags_new" /\ pc' = "tags") =>
             \A key \in DOMAIN self_tags'.stats :
                 LET combs == MapCombined(settings.combine)
                     Named(comb) == Normalize(comb.name) = key
                     first == combs[FirstIndex(combs, Named)]
                 IN IsStatOf(self_tags'.stats[key], self_tags'._info, first.name,
                             FALSE, FALSE)
       /\ (pc = "tags" /\ tests' # tests) =>
             LET test == tests'[Len(tests')] IN
             \A key \in DOMAIN self_tags'.stats :
                 IF key \in DOMAIN self_tags.stats
                 THEN LET old == self_tags.stats[key] IN
                      IsStatOf(self_tags'.stats[key], self_tags._info, old.name,
                               old.critical, old.non_critical)
                 ELSE LET Inserted(tag) ==
                              /\ Normalize(tag) = key
                              /\ TagStatistics__is_included(self_tags, tag)
                          tag == test.tags[FirstIndex(test.tags, Inserted)]
                      IN IsStatOf(self_tags'.stats[key], self_tags._info, tag,
                                  is_critical(tags_last', tag),
                                  is_non_critical(tags_last', tag))]_vars

(* C17: the TagStat of every combined tag definition counts each added     *)
(* test whose tags match the definition's pattern once and counts no other *)
(* test, so its passed + failed is the number of those tests.              *)
C17_CombinedCountsMatchesOnly ==
    pc = "tags" =>
        \A i \in DOMAIN self_tags._combine :
            LET comb == self_tags._combine[i] IN
            /\ CombinedStat(comb).combined = comb.pattern
            /\ \A t \in DOMAIN tests :
                  CopiesIn(t, CombinedStat(comb).tests)
                      = IF t \in MatchingAdded(comb) THEN 1 ELSE 0
            /\ Stat_total(CombinedStat(comb)) = Cardinality(MatchingAdded(comb))

----------------------------------------------------------------------------
(* Properties of the builder's scope stack                                 *)

(* C18: while a suite is open, _parents is the wrapper followed by the     *)
(* nodes of the suites that enclose the open suite, outermost first, and   *)
(* _current_suite_stat is the node of the open suite; before the top suite *)
(* is entered and after it is left, so when build returns, _parents is     *)
(* empty and _current_suite_stat is the wrapper.                           *)
C18_ScopeStack ==
    pc \in {"visit", "return", "sort", "total", "done", "IndexError"} =>
        /\ \A i \in DOMAIN vstack :
              parent[vstack[i]] = IF i = 1 THEN 0 ELSE vstack[i - 1]
        /\ IF vstack # <<>>
           THEN /\ _parents = <<Wrapper>> \o Front(vstack)
                /\ _current_suite_stat = Last(vstack)
           ELSE /\ _parents = <<>>
                /\ _current_suite_stat = Wrapper

(* a suite two levels below the top suite is open: the stack holds the     *)
(* wrapper and the nodes of its two ancestors                              *)
C18_Witness ==
    /\ pc = "visit"
    /\ vstack = <<1, 2, 3>>
    /\ _parents = <<Wrapper, 1, 2>>
    /\ _current_suite_stat = 3

(* the all and critical counters of a node                                 *)
Counters(node) == <<node.all.passed, node.all.failed,
                    node.critical.passed, node.critical.failed>>

(* what a test adds to the counters of a node                              *)
TestCounts(test) ==
    LET one == IF test.critical = "yes" THEN 1 ELSE 0 IN
    IF test.status = "PASS" THEN <<1, 0, one, 0>> ELSE <<0, 1, 0, one>>

Plus(c, d) == [i \in 1..4 |-> c[i] + d[i]]

(* C19: a visit of a test adds the test to the counters of the open        *)
(* suite's node and leaves every other node and every suites list alone;   *)
(* leaving a suite adds the counters of its node once to the counters of   *)
(* the node of the enclosing suite (the wrapper for the top suite) and     *)
(* leaves every other node, and every suites list, alone; entering a suite *)
(* changes no counter and creates a node with counters zero.               *)
C19_TraversalFrame ==
    [][pc = "visit" =>
          /\ tests' # tests =>
                LET open == Last(vstack) IN
                /\ DOMAIN heap' = DOMAIN heap
                /\ \A n \in DOMAIN heap : n # open => heap'[n] = heap[n]
                /\ heap'[open].suites = heap[open].suites
                /\ Counters(heap'[open])
                       = Plus(Counters(heap[open]), TestCounts(tests'[Len(tests')]))
          /\ Len(vstack') < Len(vstack) =>
                LET closing == Last(vstack)
                    above == IF Len(vstack) = 1 THEN Wrapper ELSE parent[closing]
                IN /\ DOMAIN heap' = DOMAIN heap
                   /\ \A n \in DOMAIN heap : n # above => heap'[n] = heap[n]
                   /\ heap'[above].suites = heap[above].suites
                   /\ Counters(heap'[above])
                          = Plus(Counters(heap[above]), Counters(heap[closing]))
          /\ Len(vstack') > Len(vstack) =>
                /\ \A n \in DOMAIN heap : Counters(heap'[n]) = Counters(heap[n])
                /\ \A n \in DOMAIN heap' \ DOMAIN heap :
                      Counters(heap'[n]) = <<0, 0, 0, 0>>]_vars

(* the top suite is open with a test of its own visited after a child      *)
(* suite with a critical test was left: its node counts both               *)
C19_Witness ==
    /\ pc = "visit"
    /\ vstack = <<Top>>
    /\ parent = <<0, 1>>
    /\ Len(tests) = 2
    /\ tests[1].suite = 2 /\ tests[1].critical = "yes" /\ tests[1].status = "PASS"
    /\ tests[2].suite = Top /\ tests[2].critical = "no" /\ tests[2].status = "FAIL"
    /\ Counters(heap[2]) = <<1, 0, 1, 0>>
    /\ Counters(heap[Top]) = <<1, 1, 1, 0>>

====
